---- MODULE Spec2Model ----
(***************************************************************************)
(* Model of the Markdown -> docx converter of Mini_Markdown_script.py:     *)
(* the line scanner of export_docx_from_markdown (fence flag, code buffer, *)
(* heading / list / blank / paragraph classification), the inline          *)
(* tokenizer _add_inlines_docx (INLINE_RE split and run classification),   *)
(* and the handlers of MainWindow that render the preview, save and        *)
(* autosave.                                                               *)
(*                                                                         *)
(* A text is a sequence of one-character strings.  The document built by   *)
(* python-docx is modelled as the sequence of calls made on it: one record *)
(* per paragraph added, with the runs added to it.                         *)
(***************************************************************************)
EXTENDS Integers, Sequences, FiniteSets, TLC

\* The locals of the running call of export_docx_from_markdown.
VARIABLES md, pc, lines, i, in_code, code_lines, doc
\* A second call of it, suspended (its locals), and the calls and switches
\* made so far.
VARIABLES other, switches, ncalls
\* The fields of MainWindow, the two widgets' contents, and what the handler
\* that ran last did (did: its name, whether it called preview.setMarkdown,
\* the path it wrote, whether the write succeeded).
VARIABLES editor, preview, suspend_render, pending_render, render_timer,
          autosave_timer, dirty, last_autosaved_hash, current_path, enabled,
          did

scan == <<md, pc, lines, i, in_code, code_lines, doc>>
calls == <<other, switches, ncalls>>
window == <<editor, preview, suspend_render, pending_render, render_timer,
            autosave_timer, dirty, last_autosaved_hash, current_path, enabled,
            did>>
vars == <<scan, calls, window>>

(***************************************************************************)
(* Bounds of the checked inputs.                                           *)
(***************************************************************************)
MaxLines == 4
MaxLineLen == 4
MaxInlineLen == 6

(***************************************************************************)
(* Characters and strings.                                                 *)
(***************************************************************************)
LF == "\n"
CR == "\r"
\* The backtick character.  A TLA+ string cannot hold it, so it is written
\* as the token "BQ" (one character of the text, like the others).
BT == "BQ"

\* str.strip() and the regex class \s: white space.
IsSpace(c) == c \in {" ", "\t", "\n", "\r"}

\* the regex class \d.
IsDigit(c) == c \in {"0", "1", "2", "3", "4", "5", "6", "7", "8", "9"}

\* s[k:] of a string, k counted from 1.
From(s, k) == SubSeq(s, k, Len(s))

\* str.startswith
StartsWith(s, p) == Len(s) >= Len(p) /\ SubSeq(s, 1, Len(p)) = p

\* str.endswith
EndsWith(s, p) == Len(s) >= Len(p) /\ SubSeq(s, Len(s) - Len(p) + 1, Len(s)) = p

\* The first position >= k of s that holds no white space (Len(s)+1 if none):
\* where a greedy \s* or \s+ started at k stops.
RECURSIVE SkipSpaces(_, _)
SkipSpaces(s, k) ==
    IF k <= Len(s) /\ IsSpace(s[k]) THEN SkipSpaces(s, k + 1) ELSE k

\* The first position >= k of s that holds no digit: where a greedy \d+ stops.
RECURSIVE SkipDigits(_, _)
SkipDigits(s, k) ==
    IF k <= Len(s) /\ IsDigit(s[k]) THEN SkipDigits(s, k + 1) ELSE k

\* The first position >= k of s that holds no '#'.
RECURSIVE SkipHashes(_, _)
SkipHashes(s, k) ==
    IF k <= Len(s) /\ s[k] = "#" THEN SkipHashes(s, k + 1) ELSE k

\* The last position <= k of s that holds no white space (0 if none).
RECURSIVE BackSpaces(_, _)
BackSpaces(s, k) ==
    IF k >= 1 /\ IsSpace(s[k]) THEN BackSpaces(s, k - 1) ELSE k

\* str.strip(): s without its leading and trailing white space.
Strip(s) == SubSeq(s, SkipSpaces(s, 1), BackSpaces(s, Len(s)))

\* The split without its first replace: "\r\n" is left to the second one.
ReplaceCRLF_Missing(s) == s

\* str.replace("\r\n", "\n"), left to right, non-overlapping.
RECURSIVE ReplaceCRLF(_)
ReplaceCRLF(s) ==
    IF s = <<>> THEN <<>>
    ELSE IF Len(s) >= 2 /\ s[1] = CR /\ s[2] = LF
         THEN <<LF>> \o ReplaceCRLF(From(s, 3))
         ELSE <<s[1]>> \o ReplaceCRLF(Tail(s))

\* str.replace("\r", "\n")
ReplaceCR(s) == [k \in 1..Len(s) |-> IF s[k] = CR THEN LF ELSE s[k]]

\* The position of the first "\n" of s at or after k (0 if none).
RECURSIVE FindLF(_, _)
FindLF(s, k) ==
    IF k > Len(s) THEN 0
    ELSE IF s[k] = LF THEN k ELSE FindLF(s, k + 1)

\* str.split("\n"): the segments between the newlines, empty ones kept.
RECURSIVE SplitLF(_)
SplitLF(s) ==
    LET p == FindLF(s, 1)
    IN IF p = 0 THEN <<s>>
       ELSE <<SubSeq(s, 1, p - 1)>> \o SplitLF(From(s, p + 1))

\* md.replace("\r\n", "\n").replace("\r", "\n").split("\n")
SplitLines(text) == SplitLF(ReplaceCR(ReplaceCRLF(text)))

(***************************************************************************)
(* The inline tokenizer.                                                   *)
(***************************************************************************)
\* The least e >= k with s[e] = c (0 if none).
RECURSIVE FindChar(_, _, _)
FindChar(s, c, k) ==
    IF k > Len(s) THEN 0
    ELSE IF s[k] = c THEN k ELSE FindChar(s, c, k + 1)

\* The least e >= k with s[e] = s[e+1] = "*" (0 if none).
RECURSIVE FindStars(_, _)
FindStars(s, k) ==
    IF k + 1 > Len(s) THEN 0
    ELSE IF s[k] = "*" /\ s[k + 1] = "*" THEN k ELSE FindStars(s, k + 1)

\* \*\*.+?\*\* tried at position p: the last position of the match, 0 if it
\* fails.  The interior holds at least one character and is the shortest.
BoldEnd(s, p) ==
    IF p + 1 <= Len(s) /\ s[p] = "*" /\ s[p + 1] = "*"
    THEN LET e == FindStars(s, p + 3) IN IF e = 0 THEN 0 ELSE e + 1
    ELSE 0

\* \*.+?\* tried at position p.
ItalicEnd(s, p) ==
    IF p <= Len(s) /\ s[p] = "*" THEN FindChar(s, "*", p + 2) ELSE 0

\* The code alternative of INLINE_RE (backtick .+? backtick) tried at p.
CodeEnd(s, p) ==
    IF p <= Len(s) /\ s[p] = BT THEN FindChar(s, BT, p + 2) ELSE 0

\* INLINE_RE tried at position p: the alternatives in their written order,
\* the first that matches wins.
MatchEndSwapped(s, p) ==
    IF ItalicEnd(s, p) # 0 THEN ItalicEnd(s, p)
    ELSE IF BoldEnd(s, p) # 0 THEN BoldEnd(s, p)
    ELSE CodeEnd(s, p)

MatchEnd(s, p) ==
    IF BoldEnd(s, p) # 0 THEN BoldEnd(s, p)
    ELSE IF ItalicEnd(s, p) # 0 THEN ItalicEnd(s, p)
    ELSE CodeEnd(s, p)

\* INLINE_RE.search(s, k): the first position >= k where INLINE_RE matches
\* (0 if none).
RECURSIVE Search(_, _)
Search(s, k) ==
    IF k > Len(s) THEN 0
    ELSE IF MatchEnd(s, k) # 0 THEN k ELSE Search(s, k + 1)

\* INLINE_RE.split(s), the pattern being one capture group: the text before
\* each match, then the match, ..., then the text after the last match.
RECURSIVE INLINE_RE_split(_)
INLINE_RE_split(s) ==
    LET p == Search(s, 1)
    IN IF p = 0 THEN <<s>>
       ELSE <<SubSeq(s, 1, p - 1), SubSeq(s, p, MatchEnd(s, p))>>
            \o INLINE_RE_split(From(s, MatchEnd(s, p) + 1))

Run(style, text) == [style |-> style, text |-> text]

\* The run added for one part of the split: the if / elif chain of the loop
\* of _add_inlines_docx (an empty part is skipped before it).
PartRun(part) ==
    IF StartsWith(part, <<"*", "*">>) /\ EndsWith(part, <<"*", "*">>)
       /\ Len(part) >= 4
    THEN Run("Bold", SubSeq(part, 3, Len(part) - 2))
    ELSE IF StartsWith(part, <<"*">>) /\ EndsWith(part, <<"*">>)
            /\ Len(part) >= 2
    THEN Run("Italic", SubSeq(part, 2, Len(part) - 1))
    ELSE IF StartsWith(part, <<BT>>) /\ EndsWith(part, <<BT>>)
            /\ Len(part) >= 2
    THEN Run("Code", SubSeq(part, 2, Len(part) - 1))
    ELSE Run("Plain", part)

RECURSIVE PartRuns(_)
PartRuns(parts) ==
    IF parts = <<>> THEN <<>>
    ELSE IF parts[1] = <<>> THEN PartRuns(Tail(parts))
    ELSE <<PartRun(parts[1])>> \o PartRuns(Tail(parts))

\* _add_inlines_docx(paragraph, text): the runs added to the paragraph.
add_inlines_docx(text) == PartRuns(INLINE_RE_split(text))

(***************************************************************************)
(* The line patterns of export_docx_from_markdown.  Each gives ok (whether *)
(* re.match succeeds) and the groups the code reads.                       *)
(***************************************************************************)
NoMatch == [ok |-> FALSE, level |-> 0, rest |-> <<>>]

\* HeadingRe with \s* written for \s+: a '#' run directly followed by text
\* is taken for a heading.
HeadingRe_NoSpace(line) ==
    LET h == SkipHashes(line, 1) - 1
    IN IF h >= 1 /\ h <= 6
       THEN [ok |-> TRUE, level |-> h,
             rest |-> From(line, SkipSpaces(line, h + 1))]
       ELSE [ok |-> FALSE, level |-> 0, rest |-> <<>>]

\* re.match(r"^(#{1,6})\s+(.*)$", line): level is len(group(1)), rest is
\* group(2).  #{1,6} is greedy and gives back: the longest run of 1 to 6 '#'
\* that white space follows.
HeadingRe(line) ==
    LET h == SkipHashes(line, 1) - 1
    IN IF h >= 1 /\ h <= 6 /\ h + 1 <= Len(line) /\ IsSpace(line[h + 1])
       THEN [ok |-> TRUE, level |-> h,
             rest |-> From(line, SkipSpaces(line, h + 1))]
       ELSE NoMatch

\* re.match(r"^\s*[-*]\s+(.*)$", line): rest is group(1).
BulletRe(line) ==
    LET p == SkipSpaces(line, 1)
    IN IF p + 1 <= Len(line) /\ line[p] \in {"-", "*"} /\ IsSpace(line[p + 1])
       THEN [ok |-> TRUE, level |-> 0,
             rest |-> From(line, SkipSpaces(line, p + 1))]
       ELSE NoMatch

\* re.match(r"^\s*\d+\.\s+(.*)$", line): rest is group(1).
NumRe(line) ==
    LET p == SkipSpaces(line, 1)
        q == SkipDigits(line, p)
    IN IF q > p /\ q + 1 <= Len(line) /\ line[q] = "." /\ IsSpace(line[q + 1])
       THEN [ok |-> TRUE, level |-> 0,
             rest |-> From(line, SkipSpaces(line, q + 1))]
       ELSE NoMatch

\* line.strip().startswith(three backticks)
IsFence(line) == StartsWith(Strip(line), <<BT, BT, BT>>)

\* What the loop body does with one line while in_code is False: the branch
\* taken, named after the paragraph it adds ("Fence": none).
LineKind(line) ==
    IF IsFence(line) THEN "Fence"
    ELSE IF HeadingRe(line).ok THEN "Heading"
    ELSE IF BulletRe(line).ok THEN "Bullet"
    ELSE IF NumRe(line).ok THEN "Numbered"
    ELSE IF Strip(line) = <<>> THEN "Blank"
    ELSE "Paragraph"

(***************************************************************************)
(* The paragraphs added to the document.  kind names the call that added   *)
(* the paragraph, content is the text handed to it, inl tells whether the  *)
(* text went through _add_inlines_docx, runs are the runs added.           *)
(***************************************************************************)
\* doc.add_heading(text, level=level)
HeadingPara(level, text) ==
    [kind |-> "Heading", level |-> level, content |-> text, inl |-> FALSE,
     runs |-> <<>>]

\* p = doc.add_paragraph(style=...); _add_inlines_docx(p, text)
InlinePara(kind, text) ==
    [kind |-> kind, level |-> 0, content |-> text, inl |-> TRUE,
     runs |-> add_inlines_docx(text)]

\* doc.add_paragraph("")
BlankPara ==
    [kind |-> "Blank", level |-> 0, content |-> <<>>, inl |-> FALSE,
     runs |-> <<>>]

\* p = doc.add_paragraph(); run = p.add_run(cl); run.font.name = "Consolas"
CodePara(cl) ==
    [kind |-> "CodeLine", level |-> 0, content |-> cl, inl |-> FALSE,
     runs |-> <<Run("Code", cl)>>]

\* flush_code looping over code_lines[1:].
flush_code_SkipFirst(d, cls) ==
    d \o [k \in 1..(Len(cls) - 1) |-> [kind |-> "CodeLine", level |-> 0,
                                       content |-> cls[k + 1], inl |-> FALSE,
                                       runs |-> <<Run("Code", cls[k + 1])>>]]

\* flush_code(): one monospace paragraph per buffered line, appended to d.
\* (The caller empties code_lines.)
flush_code(d, cls) == d \o [k \in 1..Len(cls) |-> CodePara(cls[k])]

(***************************************************************************)
(* The scan: one action per branch of the loop over the lines.             *)
(***************************************************************************)
AtLine == pc = "loop" /\ i <= Len(lines)

\* lines = md.replace(...).replace(...).split("\n")
Split ==
    /\ pc = "split"
    /\ lines' = SplitLines(md)
    /\ i' = 1
    /\ pc' = "loop"
    /\ UNCHANGED <<md, in_code, code_lines, doc, calls, window>>

\* FenceLine without "in_code = False" at the closing fence.
FenceLine_NoClose ==
    /\ AtLine
    /\ IsFence(lines[i])
    /\ IF ~in_code
       THEN /\ in_code' = TRUE
            /\ code_lines' = <<>>
            /\ doc' = doc
       ELSE /\ in_code' = in_code
            /\ doc' = flush_code(doc, code_lines)
            /\ code_lines' = <<>>
    /\ i' = i + 1
    /\ UNCHANGED <<md, pc, lines, calls, window>>

\* if line.strip().startswith(fence): open or close the fence; continue
FenceLine ==
    /\ AtLine
    /\ IsFence(lines[i])
    /\ IF ~in_code
       THEN /\ in_code' = TRUE
            /\ code_lines' = <<>>
            /\ doc' = doc
       ELSE /\ in_code' = FALSE
            /\ doc' = flush_code(doc, code_lines)
            /\ code_lines' = <<>>
    /\ i' = i + 1
    /\ UNCHANGED <<md, pc, lines, calls, window>>

\* CodeLine buffering line.strip() for line.
CodeLine_Stripped ==
    /\ AtLine
    /\ ~IsFence(lines[i])
    /\ in_code
    /\ code_lines' = Append(code_lines, Strip(lines[i]))
    /\ i' = i + 1
    /\ UNCHANGED <<md, pc, lines, in_code, doc, calls, window>>

\* if in_code: code_lines.append(line); continue
CodeLine ==
    /\ AtLine
    /\ ~IsFence(lines[i])
    /\ in_code
    /\ code_lines' = Append(code_lines, lines[i])
    /\ i' = i + 1
    /\ UNCHANGED <<md, pc, lines, in_code, doc, calls, window>>

Outside == AtLine /\ ~IsFence(lines[i]) /\ ~in_code

\* Titres
Heading ==
    /\ Outside
    /\ HeadingRe(lines[i]).ok
    /\ doc' = Append(doc, HeadingPara(HeadingRe(lines[i]).level,
                                      Strip(HeadingRe(lines[i]).rest)))
    /\ i' = i + 1
    /\ UNCHANGED <<md, pc, lines, in_code, code_lines, calls, window>>

\* Listes: - and *
Bullet ==
    /\ Outside
    /\ ~HeadingRe(lines[i]).ok
    /\ BulletRe(lines[i]).ok
    /\ doc' = Append(doc, InlinePara("Bullet", Strip(BulletRe(lines[i]).rest)))
    /\ i' = i + 1
    /\ UNCHANGED <<md, pc, lines, in_code, code_lines, calls, window>>

\* Listes: 1.
Numbered ==
    /\ Outside
    /\ ~HeadingRe(lines[i]).ok
    /\ ~BulletRe(lines[i]).ok
    /\ NumRe(lines[i]).ok
    /\ doc' = Append(doc, InlinePara("Numbered", Strip(NumRe(lines[i]).rest)))
    /\ i' = i + 1
    /\ UNCHANGED <<md, pc, lines, in_code, code_lines, calls, window>>

NoPattern ==
    /\ Outside
    /\ ~HeadingRe(lines[i]).ok
    /\ ~BulletRe(lines[i]).ok
    /\ ~NumRe(lines[i]).ok

\* Blank without its "continue": the line falls through to the paragraph.
Blank_NoContinue ==
    /\ NoPattern
    /\ Strip(lines[i]) = <<>>
    /\ doc' = doc \o <<BlankPara, InlinePara("Paragraph", lines[i])>>
    /\ i' = i + 1
    /\ UNCHANGED <<md, pc, lines, in_code, code_lines, calls, window>>

\* Ligne vide
Blank ==
    /\ NoPattern
    /\ Strip(lines[i]) = <<>>
    /\ doc' = Append(doc, BlankPara)
    /\ i' = i + 1
    /\ UNCHANGED <<md, pc, lines, in_code, code_lines, calls, window>>

\* Paragraphe normal
Paragraph ==
    /\ NoPattern
    /\ Strip(lines[i]) # <<>>
    /\ doc' = Append(doc, InlinePara("Paragraph", lines[i]))
    /\ i' = i + 1
    /\ UNCHANGED <<md, pc, lines, in_code, code_lines, calls, window>>

\* Finish without the flush of an unclosed fence.
Finish_NoFlush ==
    /\ pc = "loop"
    /\ i > Len(lines)
    /\ pc' = "done"
    /\ UNCHANGED <<md, lines, i, in_code, code_lines, doc, calls, window>>

\* After the loop: if in_code: flush_code()
Finish ==
    /\ pc = "loop"
    /\ i > Len(lines)
    /\ doc' = IF in_code THEN flush_code(doc, code_lines) ELSE doc
    /\ code_lines' = IF in_code THEN <<>> ELSE code_lines
    /\ pc' = "done"
    /\ UNCHANGED <<md, lines, i, in_code, calls, window>>

Next ==
    \/ Split
    \/ FenceLine
    \/ CodeLine
    \/ Heading
    \/ Bullet
    \/ Numbered
    \/ Blank
    \/ Paragraph
    \/ Finish

(***************************************************************************)
(* The texts the scan is run on.                                           *)
(***************************************************************************)
\* The strings over alphabet A of at most n characters.
Strings(A, n) == UNION {[1..k -> A] : k \in 0..n}

Fence == <<BT, BT, BT>>

\* ls joined by the line break eol, with a final eol when last is TRUE.
RECURSIVE Join(_, _, _)
Join(ls, eol, last) ==
    IF ls = <<>> THEN <<>>
    ELSE IF Len(ls) = 1 THEN ls[1] \o (IF last THEN eol ELSE <<>>)
    ELSE ls[1] \o eol \o Join(Tail(ls), eol, last)

Eols == {<<LF>>, <<CR, LF>>, <<CR>>}

\* "# Title\n\nSome *text*.\n\n(fence)\ncode line\n(fence)\n"
Scenario1 ==
    Join(<< <<"#", " ", "T", "i", "t", "l", "e">>,
            <<>>,
            <<"S", "o", "m", "e", " ", "*", "t", "e", "x", "t", "*", ".">>,
            <<>>,
            Fence,
            <<"c", "o", "d", "e", " ", "l", "i", "n", "e">>,
            Fence >>, <<LF>>, TRUE)

\* "- one\n- two\n1. three\n"
Scenario2 ==
    Join(<< <<"-", " ", "o", "n", "e">>,
            <<"-", " ", "t", "w", "o">>,
            <<"1", ".", " ", "t", "h", "r", "e", "e">> >>, <<LF>>, TRUE)

Scenarios == {Scenario1, Scenario2}

\* One line of each kind the scan tells apart.
SampleLines ==
    { <<"#", " ", "a">>,
      <<"-", " ", "a">>,
      <<"1", ".", " ", "a">>,
      <<>>,
      <<"a">>,
      Fence,
      <<" ", BT, BT, BT, "p", "y">> }

\* Documents of at most MaxLines sample lines, under each line break
\* convention, with and without a final line break.
Docs ==
    { Join(ls, eol, last) :
        ls \in Strings(SampleLines, MaxLines), eol \in Eols, last \in BOOLEAN }

LineAlphabet == {"#", "-", "*", "1", ".", " ", BT, "a"}

\* Every line of at most MaxLineLen characters: alone, inside a closed
\* fence, and after a fence that is never closed.
LineTexts ==
    { pre \o l \o post :
        l \in Strings(LineAlphabet, MaxLineLen),
        pre \in {<<>>, Fence \o <<LF>>},
        post \in {<<>>, <<LF>> \o Fence} }

InlineAlphabet == {"*", BT, "a", " "}

\* "**a** *b*" and "*unterminated"
InlineExamples ==
    { <<"*", "*", "a", "*", "*", " ", "*", "b", "*">>,
      <<"*", "u", "n", "t", "e", "r", "m", "i", "n", "a", "t", "e", "d">> }

\* Every one-line text of at most MaxInlineLen inline characters.
InlineTexts == Strings(InlineAlphabet, MaxInlineLen) \cup InlineExamples

(***************************************************************************)
(* Two calls.  in_code, code_lines, lines and doc are locals of one call   *)
(* of export_docx_from_markdown: each call has its own.  The running call  *)
(* is in the variables above, a suspended one in other; Switch suspends    *)
(* the running call between two steps and resumes the other one, Call is   *)
(* a new call made when the running one has returned.                      *)
(***************************************************************************)
MaxSwitches == 3
MaxCalls == 3

None == "None"

\* The locals of the running call.
Frame ==
    [md |-> md, pc |-> pc, lines |-> lines, i |-> i, in_code |-> in_code,
     code_lines |-> code_lines, doc |-> doc]

\* The locals of a call at its entry: in_code = False, code_lines = [],
\* doc = Document().
Entry(text) ==
    [md |-> text, pc |-> "split", lines |-> <<>>, i |-> 1, in_code |-> FALSE,
     code_lines |-> <<>>, doc |-> <<>>]

\* No second call.
NoFrame == [pc |-> None]

\* Switch with in_code and code_lines shared by the two calls.
Switch_SharedFlag ==
    /\ other.pc # None
    /\ switches < MaxSwitches
    /\ md' = other.md
    /\ pc' = other.pc
    /\ lines' = other.lines
    /\ i' = other.i
    /\ doc' = other.doc
    /\ other' = Frame
    /\ switches' = switches + 1
    /\ UNCHANGED <<in_code, code_lines, ncalls, window>>

Switch ==
    /\ other.pc # None
    /\ switches < MaxSwitches
    /\ md' = other.md
    /\ pc' = other.pc
    /\ lines' = other.lines
    /\ i' = other.i
    /\ in_code' = other.in_code
    /\ code_lines' = other.code_lines
    /\ doc' = other.doc
    /\ other' = Frame
    /\ switches' = switches + 1
    /\ UNCHANGED <<ncalls, window>>

\* The texts of the calls: with no fence, with a closed fence, and ending
\* inside a fence that is never closed.
CallTexts ==
    { Join(ls, <<LF>>, FALSE) :
        ls \in { << <<"#", " ", "a">> >>,
                 << <<"a">>, <<>>, <<"1", ".", " ", "a">> >>,
                 << Fence, <<"#", " ", "a">> >>,
                 << <<"-", " ", "a">>, Fence, <<"a">> >>,
                 << Fence, <<"a">>, Fence, <<"a">> >> } }

Call ==
    /\ pc = "done"
    /\ ncalls < MaxCalls
    /\ \E text \in CallTexts :
          /\ md' = Entry(text).md
          /\ pc' = Entry(text).pc
          /\ lines' = Entry(text).lines
          /\ i' = Entry(text).i
          /\ in_code' = Entry(text).in_code
          /\ code_lines' = Entry(text).code_lines
          /\ doc' = Entry(text).doc
    /\ ncalls' = ncalls + 1
    /\ UNCHANGED <<other, switches, window>>

NextTwo ==
    \/ Split
    \/ FenceLine
    \/ CodeLine
    \/ Heading
    \/ Bullet
    \/ Numbered
    \/ Blank
    \/ Paragraph
    \/ Finish
    \/ Switch
    \/ Call

(***************************************************************************)
(* The window.  Each handler of MainWindow runs to its end before the next *)
(* event is handled.  A timer is TRUE while it is running (single shot).   *)
(* A Markdown text is a name; the preview holds the text last given to     *)
(* setMarkdown and whether the user has edited the preview since.          *)
(***************************************************************************)
\* The text __init__ puts in the editor.
InitialText == "initial"
Texts == {InitialText, "a", "b"}
Paths == {"p.md", "q.md"}

\* Path.home() / cfg.fallback_filename
Fallback == "MiniMarkdown_autosave.md"

\* hash(md): equal texts have equal hashes; the texts here have different
\* ones.
hash(text) == <<"hash", text>>

\* preview.setMarkdown(md)
setMarkdown(text) == [md |-> text, edited |-> FALSE]

\* What a handler did: its name, whether it called preview.setMarkdown, the
\* path it called write_text on (None: no write) and whether the write
\* succeeded.
Did(by, rendered, path, ok) ==
    [by |-> by, rendered |-> rendered, path |-> path, ok |-> ok]

\* _autosave_target()
autosave_target == IF current_path # None THEN current_path ELSE Fallback

\* The user edits the editor (typing, or a formatting action of the tool
\* bar): textChanged calls _on_text_changed.
TextChanged ==
    \E text \in Texts \ {editor} :
        /\ editor' = text
        /\ dirty' = TRUE
        /\ pending_render' = (suspend_render \/ pending_render)
        /\ render_timer' = (~suspend_render \/ render_timer)
        /\ autosave_timer' = (enabled \/ autosave_timer)
        /\ did' = Did("_on_text_changed", FALSE, None, FALSE)
        /\ UNCHANGED <<preview, suspend_render, last_autosaved_hash,
                       current_path, enabled, scan, calls>>

\* PreviewEdit.focusInEvent -> _preview_focus_in
FocusIn ==
    /\ ~suspend_render
    /\ suspend_render' = TRUE
    /\ did' = Did("_preview_focus_in", FALSE, None, FALSE)
    /\ UNCHANGED <<editor, preview, pending_render, render_timer,
                   autosave_timer, dirty, last_autosaved_hash, current_path,
                   enabled, scan, calls>>

\* _preview_focus_out that forgets the pending render.
FocusOut_NoRender ==
    /\ suspend_render
    /\ suspend_render' = FALSE
    /\ pending_render' = FALSE
    /\ did' = Did("_preview_focus_out", FALSE, None, FALSE)
    /\ UNCHANGED <<editor, preview, render_timer, autosave_timer, dirty,
                   last_autosaved_hash, current_path, enabled, scan, calls>>

\* PreviewEdit.focusOutEvent -> _preview_focus_out
FocusOut ==
    /\ suspend_render
    /\ suspend_render' = FALSE
    /\ pending_render' = FALSE
    /\ preview' = IF pending_render THEN setMarkdown(editor) ELSE preview
    /\ did' = Did("_preview_focus_out", pending_render, None, FALSE)
    /\ UNCHANGED <<editor, render_timer, autosave_timer, dirty,
                   last_autosaved_hash, current_path, enabled, scan, calls>>

\* The user edits the preview (it is editable; it has the focus).
PreviewEdited ==
    /\ suspend_render
    /\ preview' = [preview EXCEPT !.edited = TRUE]
    /\ did' = Did("PreviewEdit", FALSE, None, FALSE)
    /\ UNCHANGED <<editor, suspend_render, pending_render, render_timer,
                   autosave_timer, dirty, last_autosaved_hash, current_path,
                   enabled, scan, calls>>

\* _render_timer.timeout -> _render_preview_now() (force = False)
RenderTimeout ==
    /\ render_timer
    /\ render_timer' = FALSE
    /\ IF suspend_render
       THEN /\ pending_render' = TRUE
            /\ preview' = preview
       ELSE /\ pending_render' = pending_render
            /\ preview' = setMarkdown(editor)
    /\ did' = Did("_render_preview_now", ~suspend_render, None, FALSE)
    /\ UNCHANGED <<editor, suspend_render, autosave_timer, dirty,
                   last_autosaved_hash, current_path, enabled, scan, calls>>

\* _autosave_timer.timeout -> _autosave_now(); write_text succeeds or raises.
AutosaveTimeout ==
    /\ autosave_timer
    /\ autosave_timer' = FALSE
    /\ IF ~enabled \/ hash(editor) = last_autosaved_hash
       THEN /\ last_autosaved_hash' = last_autosaved_hash
            /\ did' = Did("_autosave_now", FALSE, None, FALSE)
       ELSE \E ok \in BOOLEAN :
               /\ last_autosaved_hash' =
                     IF ok THEN hash(editor) ELSE last_autosaved_hash
               /\ did' = Did("_autosave_now", FALSE, autosave_target, ok)
    /\ UNCHANGED <<editor, preview, suspend_render, pending_render,
                   render_timer, dirty, current_path, enabled, scan, calls>>

\* open_file, the dialog having returned the path p of a file holding text.
\* editor.setPlainText(text) emits textChanged, which runs _on_text_changed
\* before the assignments of lines 1007-1009; whether Qt emits it when the
\* text set is the text already there is left open.
OpenFile ==
    \E p \in Paths, text \in Texts :
      \E emitted \in (IF text # editor THEN {TRUE} ELSE BOOLEAN) :
        /\ editor' = text
        /\ pending_render' = ((emitted /\ suspend_render) \/ pending_render)
        /\ render_timer' = ((emitted /\ ~suspend_render) \/ render_timer)
        /\ autosave_timer' = ((emitted /\ enabled) \/ autosave_timer)
        /\ current_path' = p
        /\ dirty' = FALSE
        /\ last_autosaved_hash' = None
        /\ preview' = setMarkdown(text)
        /\ did' = Did("open_file", TRUE, None, FALSE)
        /\ UNCHANGED <<suspend_render, enabled, scan, calls>>

\* save_file_as, the dialog having returned the path p (with the suffix
\* .md): current_path = p, then save_file(), whose write_text succeeds (ok)
\* or raises.
save_file_as(p, ok) ==
    /\ current_path' = p
    /\ dirty' = IF ok THEN FALSE ELSE dirty
    /\ did' = Did("save_file_as", FALSE, p, ok)
    /\ UNCHANGED <<editor, preview, suspend_render, pending_render,
                   render_timer, autosave_timer, last_autosaved_hash, enabled,
                   scan, calls>>

SaveFileAs == \E p \in Paths, ok \in BOOLEAN : save_file_as(p, ok)

\* save_file: save_file_as when there is no current path, else write_text
\* to the current path.
SaveFile ==
    IF current_path = None
    THEN \E p \in Paths, ok \in BOOLEAN : save_file_as(p, ok)
    ELSE \E ok \in BOOLEAN :
            /\ dirty' = IF ok THEN FALSE ELSE dirty
            /\ did' = Did("save_file", FALSE, current_path, ok)
            /\ UNCHANGED <<editor, preview, suspend_render, pending_render,
                           render_timer, autosave_timer, last_autosaved_hash,
                           current_path, enabled, scan, calls>>

\* toggle_autosave(checked): the menu action is checkable and follows
\* cfg.enabled, so checked is its negation.
ToggleAutosave ==
    /\ enabled' = ~enabled
    /\ autosave_timer' = IF enabled THEN FALSE ELSE (dirty \/ autosave_timer)
    /\ did' = Did("toggle_autosave", FALSE, None, FALSE)
    /\ UNCHANGED <<editor, preview, suspend_render, pending_render,
                   render_timer, dirty, last_autosaved_hash, current_path,
                   scan, calls>>

NextGui ==
    \/ TextChanged
    \/ FocusIn
    \/ FocusOut
    \/ PreviewEdited
    \/ RenderTimeout
    \/ AutosaveTimeout
    \/ OpenFile
    \/ SaveFileAs
    \/ SaveFile
    \/ ToggleAutosave

\* The window after __init__: setPlainText(initial text) has run
\* _on_text_changed (both timers started, _dirty set), then the preview was
\* rendered.
WindowInit ==
    /\ editor = InitialText
    /\ preview = setMarkdown(InitialText)
    /\ suspend_render = FALSE
    /\ pending_render = FALSE
    /\ render_timer = TRUE
    /\ autosave_timer = TRUE
    /\ dirty = TRUE
    /\ last_autosaved_hash = None
    /\ current_path = None
    /\ enabled = TRUE
    /\ did = Did("__init__", TRUE, None, FALSE)

\* No call of export_docx_from_markdown is running.
NoCall ==
    /\ md = <<>>
    /\ pc = None
    /\ lines = <<>>
    /\ i = 1
    /\ in_code = FALSE
    /\ code_lines = <<>>
    /\ doc = <<>>

\* One call.
OneCall ==
    /\ other = NoFrame
    /\ switches = 0
    /\ ncalls = 1

InitWith(texts) ==
    /\ md \in texts
    /\ pc = "split"
    /\ lines = <<>>
    /\ i = 1
    /\ in_code = FALSE
    /\ code_lines = <<>>
    /\ doc = <<>>
    /\ OneCall
    /\ WindowInit

Init == InitWith(Docs \cup Scenarios)
InitLine == InitWith(LineTexts \cup Scenarios)
InitInline == InitWith(InlineTexts \cup Scenarios)

\* Documents of sample lines.
Spec == Init /\ [][Next]_vars
\* Every short line, outside and inside a fence.
SpecLine == InitLine /\ [][Next]_vars
\* Every short inline content.
SpecInline == InitInline /\ [][Next]_vars

\* Two calls on the texts of CallTexts, neither has taken a step.
InitTwo ==
    /\ \E text \in CallTexts :
          /\ md = Entry(text).md
          /\ pc = Entry(text).pc
          /\ lines = Entry(text).lines
          /\ i = Entry(text).i
          /\ in_code = Entry(text).in_code
          /\ code_lines = Entry(text).code_lines
          /\ doc = Entry(text).doc
    /\ other \in {Entry(text) : text \in CallTexts}
    /\ switches = 0
    /\ ncalls = 2
    /\ WindowInit

\* Two calls with their steps interleaved, and calls made after them.
SpecTwo == InitTwo /\ [][NextTwo]_vars

InitGui ==
    /\ NoCall
    /\ other = NoFrame
    /\ switches = 0
    /\ ncalls = 0
    /\ WindowInit

\* The window and its events.
SpecGui == InitGui /\ [][NextGui]_vars

(***************************************************************************)
(* What the properties speak of.                                           *)
(***************************************************************************)
\* The block a paragraph of the document stands for: its variant, level and
\* content.
Block(p) == [kind |-> p.kind, level |-> p.level, content |-> p.content]

Blocks(d) == [k \in 1..Len(d) |-> Block(d[k])]

\* s trimmed: from its first to its last character that is no white space.
Trimmed(s) ==
    LET ink == {k \in 1..Len(s) : ~IsSpace(s[k])}
    IN IF ink = {} THEN <<>>
       ELSE SubSeq(s, CHOOSE a \in ink : \A b \in ink : a <= b,
                      CHOOSE a \in ink : \A b \in ink : a >= b)

\* A fence-marker line: its trimmed content starts with three backticks.
FenceMarker(l) ==
    LET t == Trimmed(l)
    IN Len(t) >= 3 /\ t[1] = BT /\ t[2] = BT /\ t[3] = BT

AllSpace(l, a, b) == \A k \in a..b : IsSpace(l[k])

\* Rule 4: n leading '#', 1 <= n <= 6, then white space.
HeadingLevels(l) ==
    {n \in 1..6 : /\ n + 1 <= Len(l)
                  /\ \A k \in 1..n : l[k] = "#"
                  /\ IsSpace(l[n + 1])}

\* Rule 5: indentation, '-' or '*' at position k, then white space.
BulletMarks(l) ==
    {k \in 1..Len(l) : /\ AllSpace(l, 1, k - 1)
                       /\ l[k] \in {"-", "*"}
                       /\ k + 1 <= Len(l)
                       /\ IsSpace(l[k + 1])}

\* Rule 6: indentation, digits, '.' at position k, then white space.
NumberDots(l) ==
    {k \in 2..Len(l) : /\ l[k] = "."
                       /\ k + 1 <= Len(l)
                       /\ IsSpace(l[k + 1])
                       /\ \E d \in 1..(k - 1) :
                             /\ AllSpace(l, 1, d - 1)
                             /\ \A j \in d..(k - 1) : IsDigit(l[j])}

\* The block rules 4 to 8 choose for a line, the first matching rule winning.
RuleBlock(l) ==
    IF HeadingLevels(l) # {}
    THEN LET n == CHOOSE n \in HeadingLevels(l) : TRUE
         IN [kind |-> "Heading", level |-> n,
             content |-> Trimmed(From(l, n + 1))]
    ELSE IF BulletMarks(l) # {}
    THEN LET k == CHOOSE k \in BulletMarks(l) : TRUE
         IN [kind |-> "Bullet", level |-> 0,
             content |-> Trimmed(From(l, k + 1))]
    ELSE IF NumberDots(l) # {}
    THEN LET k == CHOOSE k \in NumberDots(l) : TRUE
         IN [kind |-> "Numbered", level |-> 0,
             content |-> Trimmed(From(l, k + 1))]
    ELSE IF AllSpace(l, 1, Len(l))
    THEN [kind |-> "Blank", level |-> 0, content |-> <<>>]
    ELSE [kind |-> "Paragraph", level |-> 0, content |-> l]

(***************************************************************************)
(* C1.  A line that is processed while the fence flag is false and that is *)
(* no fence marker adds exactly one block to the document, the one rules 4 *)
(* to 8 choose: Heading(number of '#', remainder trimmed), BulletItem,     *)
(* NumberedItem, BlankSeparator, or Paragraph(the line unmodified).        *)
(***************************************************************************)
C1_RuleBlockEmitted ==
    [][ (pc = "loop" /\ i <= Len(lines) /\ ~in_code /\ ~FenceMarker(lines[i]))
        => /\ Len(doc') = Len(doc) + 1
           /\ SubSeq(doc', 1, Len(doc)) = doc
           /\ Block(doc'[Len(doc')]) = RuleBlock(lines[i]) ]_vars

\* The line "## a" was scanned outside a fence and gave Heading(2, "a").
C1_Witness ==
    /\ pc = "done"
    /\ lines = << <<"#", "#", " ", "a">> >>
    /\ Blocks(doc) = << [kind |-> "Heading", level |-> 2, content |-> <<"a">>] >>

\* CodeLine(text)
CodeBlock(l) == [kind |-> "CodeLine", level |-> 0, content |-> l]

\* The blocks given so far: those of the document, then the code lines that
\* are buffered until the fence closes.
Pending ==
    Blocks(doc) \o [k \in 1..Len(code_lines) |-> CodeBlock(code_lines[k])]

\* The scan is about to process a line.
Reading == pc = "loop" /\ i <= Len(lines)

(***************************************************************************)
(* C2.  The fence flag is false when the scan starts; it changes only on a *)
(* fence-marker line, which flips it (false to true, true to false) and    *)
(* gives no block of its own.                                              *)
(***************************************************************************)
C2_FenceFlag ==
    /\ in_code = FALSE
    /\ [][ /\ (in_code' # in_code) => (Reading /\ FenceMarker(lines[i]))
           /\ (Reading /\ FenceMarker(lines[i]))
                 => (in_code' = ~in_code /\ Pending' = Pending) ]_vars

\* A fence was opened and closed around one line: the flag is false again
\* and the only block is that line's.
C2_Witness ==
    /\ pc = "loop"
    /\ i = 4
    /\ FenceMarker(lines[1]) /\ ~FenceMarker(lines[2]) /\ FenceMarker(lines[3])
    /\ ~in_code
    /\ Blocks(doc) = <<CodeBlock(lines[2])>>

(***************************************************************************)
(* C3.  Every line read while the fence flag is true, other than a fence   *)
(* marker, becomes a CodeLine holding the line unmodified, whatever the    *)
(* line looks like, and is in the document when the scan ends.             *)
(***************************************************************************)
C3_CodeLineInFence ==
    /\ [][ (Reading /\ in_code /\ ~FenceMarker(lines[i]))
             => Pending' = Append(Pending, CodeBlock(lines[i])) ]_vars
    /\ [](pc = "done" => code_lines = <<>>)

\* The line " # a", a heading but for the fence around it, came out as a
\* CodeLine with its leading space.
C3_Witness ==
    /\ pc = "done"
    /\ lines = <<Fence, <<" ", "#", " ", "a">>, Fence>>
    /\ Blocks(doc) = <<CodeBlock(<<" ", "#", " ", "a">>)>>

(***************************************************************************)
(* C4.  Fence pairing.  With an even number of fence-marker lines the      *)
(* number of CodeLine blocks is the number of lines strictly between       *)
(* paired fences; with an odd number, the lines after the unmatched        *)
(* opening fence are all CodeLine blocks at the end of the output.         *)
(***************************************************************************)
FenceAt(ls) == {k \in 1..Len(ls) : FenceMarker(ls[k])}

\* The rank of fence marker k among the fence markers.
Rank(ls, k) == Cardinality({j \in FenceAt(ls) : j <= k})

\* The lines strictly between an opening fence and the fence closing it.
Between(ls) ==
    {k \in 1..Len(ls) :
        \E a, b \in FenceAt(ls) :
            /\ a < k /\ k < b
            /\ Rank(ls, a) % 2 = 1
            /\ Rank(ls, b) = Rank(ls, a) + 1}

\* The last fence marker (0 if none).
LastFence(ls) ==
    IF FenceAt(ls) = {} THEN 0
    ELSE CHOOSE a \in FenceAt(ls) : \A b \in FenceAt(ls) : b <= a

CodeBlocks(d) == SelectSeq(Blocks(d), LAMBDA b : b.kind = "CodeLine")

C4_FencePairing ==
    pc = "done" =>
        LET n == Cardinality(FenceAt(lines))
            codes == CodeBlocks(doc)
            tail == Len(lines) - LastFence(lines)
        IN /\ n % 2 = 0 => Len(codes) = Cardinality(Between(lines))
           /\ n % 2 = 1 =>
                /\ Len(codes) >= tail
                /\ SubSeq(Blocks(doc), Len(doc) - tail + 1, Len(doc))
                     = [k \in 1..tail |-> CodeBlock(lines[LastFence(lines) + k])]

\* A fence opened on the second line and never closed: the two lines after
\* it are the CodeLine blocks that end the output.
C4_Witness ==
    /\ pc = "done"
    /\ Len(lines) = 4
    /\ FenceAt(lines) = {2}
    /\ lines[3] # <<>>
    /\ SubSeq(Blocks(doc), 2, 3) = <<CodeBlock(lines[3]), CodeBlock(lines[4])>>

(***************************************************************************)
(* C5.  The scan of any text ends, with no outcome but "done", and gives   *)
(* at most as many blocks as the text has lines.                           *)
(***************************************************************************)
\* The line breaks of a text: "\n", "\r\n" (one break) and a lone "\r".
LineBreaks(s) ==
    {k \in 1..Len(s) :
        \/ s[k] = LF
        \/ s[k] = CR /\ ~(k < Len(s) /\ s[k + 1] = LF)}

\* The lines of a text: one more than its line breaks.
NumLines(s) == Cardinality(LineBreaks(s)) + 1

\* How far the scan is: 0 before the split, then the number of the line
\* read next, then one more than that of the last line's successor.
Progress ==
    IF pc = "split" THEN 0
    ELSE IF pc = "loop" THEN i
    ELSE Len(lines) + 2

\* A branch of the scan applies: the guards of the actions, one per branch
\* (what each branch then does is defined whatever the line).
CanStep ==
    \/ pc = "split"
    \/ pc = "loop" /\ i > Len(lines)
    \/ AtLine /\ IsFence(lines[i])
    \/ AtLine /\ ~IsFence(lines[i]) /\ in_code
    \/ Outside /\ HeadingRe(lines[i]).ok
    \/ Outside /\ ~HeadingRe(lines[i]).ok /\ BulletRe(lines[i]).ok
    \/ Outside /\ ~HeadingRe(lines[i]).ok /\ ~BulletRe(lines[i]).ok
               /\ NumRe(lines[i]).ok
    \/ NoPattern /\ Strip(lines[i]) = <<>>
    \/ NoPattern /\ Strip(lines[i]) # <<>>

BlankBlock == [kind |-> "Blank", level |-> 0, content |-> <<>>]

C6_Scenario ==
    (md = Scenario1 /\ pc = "done") =>
        Blocks(doc) =
          << [kind |-> "Heading", level |-> 1,
              content |-> <<"T", "i", "t", "l", "e">>],
             BlankBlock,
             [kind |-> "Paragraph", level |-> 0,
              content |-> <<"S", "o", "m", "e", " ", "*", "t", "e", "x", "t",
                            "*", ".">>],
             BlankBlock,
             CodeBlock(<<"c", "o", "d", "e", " ", "l", "i", "n", "e">>) >>

(***************************************************************************)
(* C7.  The scan of "- one", "- two", "1. three", each line ended by a     *)
(* newline, gives exactly BulletItem("one"), BulletItem("two"),            *)
(* NumberedItem("three").                                                  *)
(***************************************************************************)
C7_Scenario ==
    (md = Scenario2 /\ pc = "done") =>
        Blocks(doc) =
          << [kind |-> "Bullet", level |-> 0, content |-> <<"o", "n", "e">>],
             [kind |-> "Bullet", level |-> 0, content |-> <<"t", "w", "o">>],
             [kind |-> "Numbered", level |-> 0,
              content |-> <<"t", "h", "r", "e", "e">>] >>

(***************************************************************************)
(* The spans of a content, as the patterns define them: bold, italic or    *)
(* code, each with an interior of at least one character.                  *)
(***************************************************************************)
\* Some pattern matches at position p.
SpanStarts(s, p) == BoldEnd(s, p) # 0 \/ ItalicEnd(s, p) # 0 \/ CodeEnd(s, p) # 0

\* The earliest position where a pattern matches (0 if none does).
FirstSpan(s) ==
    IF \E p \in 1..Len(s) : SpanStarts(s, p)
    THEN CHOOSE p \in 1..Len(s) :
            SpanStarts(s, p) /\ \A q \in 1..(p - 1) : ~SpanStarts(s, q)
    ELSE 0

\* The span matched at p, bold before italic before code: its last position
\* and the width of its delimiter.
SpanAt(s, p) ==
    IF BoldEnd(s, p) # 0 THEN [last |-> BoldEnd(s, p), width |-> 2]
    ELSE IF ItalicEnd(s, p) # 0 THEN [last |-> ItalicEnd(s, p), width |-> 1]
    ELSE [last |-> CodeEnd(s, p), width |-> 1]

\* s with the delimiters of its matched spans removed and all else kept.
RECURSIVE Unmarked(_)
Unmarked(s) ==
    LET p == FirstSpan(s)
    IN IF p = 0 THEN s
       ELSE LET m == SpanAt(s, p)
            IN SubSeq(s, 1, p - 1)
               \o SubSeq(s, p + m.width, m.last - m.width)
               \o Unmarked(From(s, m.last + 1))

\* The texts of the runs, one after the other.
RECURSIVE RunsText(_)
RunsText(rs) == IF rs = <<>> THEN <<>> ELSE rs[1].text \o RunsText(Tail(rs))

\* The paragraphs whose content went through the inline tokenizer.
Inlined == {k \in 1..Len(doc) : doc[k].inl}

(***************************************************************************)
(* C8.  Inline concatenation: the texts of the spans of a content, put     *)
(* together in order, are the content without the delimiters of its        *)
(* matched bold, italic and code spans, every other character kept.        *)
(***************************************************************************)
C8_InlineConcat ==
    \A k \in Inlined : RunsText(doc[k].runs) = Unmarked(doc[k].content)

(***************************************************************************)
(* C9.  Tie-break: where the earliest match starts, if a bold and an       *)
(* italic match both start there, the span given for it is Bold, without   *)
(* its two delimiters; "**a** *b*" gives Bold("a"), Plain(" "),            *)
(* Italic("b").                                                            *)
(***************************************************************************)
TieExample == <<"*", "*", "a", "*", "*", " ", "*", "b", "*">>

C9_BoldBeforeItalic ==
    \A k \in Inlined :
        LET s == doc[k].content
            rs == doc[k].runs
            p == FirstSpan(s)
        IN /\ (p # 0 /\ BoldEnd(s, p) # 0 /\ ItalicEnd(s, p) # 0) =>
                LET n == IF p = 1 THEN 1 ELSE 2
                IN /\ Len(rs) >= n
                   /\ rs[n] = Run("Bold", SubSeq(s, p + 2, BoldEnd(s, p) - 2))
           /\ s = TieExample =>
                rs = << Run("Bold", <<"a">>), Run("Plain", <<" ">>),
                        Run("Italic", <<"b">>) >>

\* "**a** *b*" was tokenized, as the content of a paragraph.
C9_Witness ==
    /\ pc = "done"
    /\ Len(doc) = 1
    /\ doc[1].inl
    /\ doc[1].content = TieExample
    /\ doc[1].runs[1].style = "Bold"

(***************************************************************************)
(* C10.  A delimiter without a closing partner gives no styled span: in a  *)
(* content where no pattern matches, the whole content is one Plain span;  *)
(* "*unterminated" gives Plain("*unterminated").                           *)
(***************************************************************************)
C10_UnclosedIsPlain ==
    \A k \in Inlined :
        LET s == doc[k].content
        IN (s # <<>> /\ FirstSpan(s) = 0) => doc[k].runs = <<Run("Plain", s)>>

(***************************************************************************)
(* C11.  A delimiter pair with an empty interior gives no styled span: no  *)
(* Bold, Italic or Code span has an empty text.                            *)
(***************************************************************************)
C11_NoEmptyStyledSpan ==
    \A k \in Inlined :
        \A n \in 1..Len(doc[k].runs) :
            doc[k].runs[n].style # "Plain" => doc[k].runs[n].text # <<>>

(***************************************************************************)
(* C12.  The inline tokenizer is applied, once, to the content of every    *)
(* Heading, BulletItem, NumberedItem and Paragraph, and never to a         *)
(* CodeLine, whose text is one literal monospace run.                      *)
(***************************************************************************)
C12_InlineOnEveryTextBlock ==
    \A k \in 1..Len(doc) :
        /\ doc[k].kind \in {"Heading", "Bullet", "Numbered", "Paragraph"}
              => (doc[k].inl /\ doc[k].runs = add_inlines_docx(doc[k].content))
        /\ doc[k].kind = "CodeLine"
              => (~doc[k].inl /\ doc[k].runs = <<Run("Code", doc[k].content)>>)

(***************************************************************************)
(* C14.  Classification is stable under reconstruction: the line rebuilt   *)
(* from a block with its marker (the '#' of the level, a space and the     *)
(* content; "- " and the content; "1. " and the content; the content of a  *)
(* paragraph; the empty line), scanned alone, gives the same variant.      *)
(***************************************************************************)
Rebuilt(b) ==
    IF b.kind = "Heading"
    THEN [k \in 1..b.level |-> "#"] \o <<" ">> \o b.content
    ELSE IF b.kind = "Bullet" THEN <<"-", " ">> \o b.content
    ELSE IF b.kind = "Numbered" THEN <<"1", ".", " ">> \o b.content
    ELSE IF b.kind = "Paragraph" THEN b.content
    ELSE <<>>

C14_StableUnderReconstruction ==
    \A k \in 1..Len(doc) :
        doc[k].kind # "CodeLine"
            => LineKind(Rebuilt(Block(doc[k]))) = doc[k].kind

\* "## " gave a heading of level 2 with an empty content, which is rebuilt
\* as "## ".
C14_Witness ==
    /\ pc = "done"
    /\ lines = << <<"#", "#", " ">> >>
    /\ Blocks(doc) = << [kind |-> "Heading", level |-> 2, content |-> <<>>] >>

(***************************************************************************)
(* The blocks of a sequence of lines, read off the rules: a fence marker   *)
(* gives none and turns the fence on or off, a line inside a fence is a    *)
(* CodeLine, any other line gives the block of rules 4 to 8.               *)
(***************************************************************************)
RECURSIVE RefFrom(_, _, _)
RefFrom(ls, k, inside) ==
    IF k > Len(ls) THEN <<>>
    ELSE IF FenceMarker(ls[k]) THEN RefFrom(ls, k + 1, ~inside)
    ELSE <<IF inside THEN CodeBlock(ls[k]) ELSE RuleBlock(ls[k])>>
         \o RefFrom(ls, k + 1, inside)

RefBlocks(ls) == RefFrom(ls, 1, FALSE)

(***************************************************************************)
(* C15.  Line endings are normalized: the text with each line break        *)
(* written "\r\n", with each written "\r" and with each written "\n" split *)
(* into the same lines (the lines the loop starts on) and give the same    *)
(* blocks, and no line or block holds a "\r" or a "\n".                    *)
(***************************************************************************)
\* s with each of its line breaks ("\r\n", "\r", "\n") written eol.
RECURSIVE WithBreaks(_, _)
WithBreaks(s, eol) ==
    IF s = <<>> THEN <<>>
    ELSE IF Len(s) >= 2 /\ s[1] = CR /\ s[2] = LF
         THEN eol \o WithBreaks(From(s, 3), eol)
    ELSE IF s[1] \in {CR, LF} THEN eol \o WithBreaks(Tail(s), eol)
    ELSE <<s[1]>> \o WithBreaks(Tail(s), eol)

NoBreakIn(s) == \A k \in 1..Len(s) : s[k] \notin {CR, LF}

C15_LineEndingsNormalized ==
    /\ (pc = "loop" /\ i = 1) =>
          \A e \in Eols : SplitLines(WithBreaks(md, e)) = lines
    /\ \A k \in 1..Len(lines) : NoBreakIn(lines[k])
    /\ \A k \in 1..Len(doc) :
          /\ NoBreakIn(doc[k].content)
          /\ \A n \in 1..Len(doc[k].runs) : NoBreakIn(doc[k].runs[n].text)
    /\ pc = "done" =>
          /\ \A e \in Eols : SplitLines(WithBreaks(md, e)) = lines
          /\ Blocks(doc) = RefBlocks(lines)

\* A text written with "\r\n" was scanned: three lines, a heading, a code
\* line in an unclosed fence after it.
C15_Witness ==
    /\ pc = "done"
    /\ md = <<"#", " ", "a", CR, LF, BT, BT, BT, CR, LF, "a">>
    /\ Len(doc) = 2

(***************************************************************************)
(* C16.  Blocks come in source order with nothing lost: at every point of  *)
(* the scan the blocks given so far (those buffered in a fence included)   *)
(* are, in order, one per line read that is no fence marker; at the end    *)
(* they are all in the document.                                           *)
(***************************************************************************)
C16_SourceOrder ==
    /\ pc # "split" => Pending = RefBlocks(SubSeq(lines, 1, i - 1))
    /\ pc = "done" => (code_lines = <<>> /\ i = Len(lines) + 1)

\* A line outside, then two different lines in a fence left open: three
\* blocks in the order of their lines, the code lines still buffered when the
\* last line has been read.
C16_Witness ==
    /\ pc = "loop"
    /\ i = 5 /\ Len(lines) = 4
    /\ FenceAt(lines) = {2}
    /\ lines[3] # lines[4]
    /\ Blocks(doc) = <<RuleBlock(lines[1])>>
    /\ code_lines = <<lines[3], lines[4]>>

(***************************************************************************)
(* C13.  The fence flag and the code-line buffer are local to one scan:    *)
(* every scan starts with the flag false and the buffer empty, whatever    *)
(* the scans before it and beside it did, and two scans whose steps are    *)
(* interleaved each give the blocks they give alone (one per line that is  *)
(* no fence marker, by the rules); two scans of the same text give the     *)
(* same document.                                                          *)
(***************************************************************************)
C13_ScanLocal ==
    /\ pc = "split" => (~in_code /\ code_lines = <<>> /\ doc = <<>>)
    /\ other.pc = "split" =>
          (~other.in_code /\ other.code_lines = <<>> /\ other.doc = <<>>)
    /\ pc = "done" => Blocks(doc) = RefBlocks(SplitLines(md))
    /\ other.pc = "done" =>
          Blocks(other.doc) = RefBlocks(SplitLines(other.md))
    /\ (pc = "done" /\ other.pc = "done" /\ md = other.md) => doc = other.doc

\* Three calls were made and the two last ones switched at least twice; the
\* running one ended inside a fence never closed, the other one met no fence
\* and gave a heading.
C13_Witness ==
    /\ ncalls = MaxCalls
    /\ switches >= 2
    /\ pc = "done" /\ in_code
    /\ other.pc = "done" /\ ~other.in_code
    /\ \E k \in 1..Len(other.doc) : other.doc[k].kind = "Heading"

(***************************************************************************)
(* C17.  While the preview has the focus (from its focus-in to its         *)
(* focus-out) no handler replaces its content by a render of the editor    *)
(* text.                                                                   *)
(***************************************************************************)
C17_FocusedPreviewKept ==
    [][(suspend_render /\ suspend_render') => ~did'.rendered]_vars

(***************************************************************************)
(* C18.  No editor change is lost by the suspension: a focus-out with a    *)
(* render pending renders the editor text and clears _pending_render; a    *)
(* change or an expiry of the render timer while the preview has the focus *)
(* leaves a render pending; an expiry while it has not renders the editor  *)
(* text; and whenever the preview was rendered from another text than the  *)
(* editor's, the render timer is running or a render is pending (and then  *)
(* the preview has the focus, so a focus-out is to come).                  *)
(***************************************************************************)
C18_NoChangeLost ==
    /\ [][(suspend_render /\ ~suspend_render' /\ pending_render)
             => (preview' = setMarkdown(editor') /\ ~pending_render')]_vars
    /\ [][(suspend_render /\ suspend_render'
              /\ (editor' # editor \/ (render_timer /\ ~render_timer')))
             => pending_render']_vars
    /\ [][(~suspend_render /\ render_timer /\ ~render_timer')
             => preview' = setMarkdown(editor')]_vars
    /\ [](preview.md # editor => (render_timer \/ pending_render))
    /\ [](pending_render => suspend_render)

\* The editor text was changed, the render timer is not running, and the
\* focus-out of the preview has just rendered the text.
C18_Witness ==
    /\ did.by = "_preview_focus_out" /\ did.rendered
    /\ editor # InitialText
    /\ ~render_timer
    /\ preview = setMarkdown(editor)

(***************************************************************************)
(* C19.  Autosave writes only unsaved modifications: when _dirty is false, *)
(* an expiry of the autosave timer writes no file.                         *)
(***************************************************************************)
C19_AutosaveOnlyWhenDirty ==
    [][(did'.by = "_autosave_now" /\ autosave_timer /\ ~dirty)
          => did'.path = None]_vars

(***************************************************************************)
(* C20.  A failed Save As leaves current_path and _dirty as they were.     *)
(***************************************************************************)
C20_FailedSaveAsKeepsState ==
    [][(did'.by = "save_file_as" /\ ~did'.ok)
          => (current_path' = current_path /\ dirty' = dirty)]_vars

====
